---- MODULE Spec2Model ----
(***************************************************************************)
(* Model of the two chatbot scripts of langgraph_vs_crewai:                *)
(*   crewai_flow_chatbot_direct_call.py  (variables c_..., actions Crew...) *)
(*   langgraph_chatbot.py                (variables g_..., actions Graph...)*)
(* Both scripts are run side by side on one console: every console line    *)
(* and every language-model outcome of a turn is given to both, so their   *)
(* behaviour can be compared turn by turn.                                 *)
(*                                                                         *)
(* Text (console lines, replies, message contents) is a sequence of        *)
(* one-character strings, so that str.strip() and str.lower() are          *)
(* computed rather than assumed.  Labels and branch names are strings.     *)
(*                                                                         *)
(* The orchestration frameworks are not part of the repository.  They are  *)
(* taken as their use in the scripts describes them: a Flow runs the       *)
(* @start method, hands its return value to the @router, runs the          *)
(* listener named by the router's result, keeps its state between          *)
(* kickoff() calls and returns the last method's output; a StateGraph      *)
(* merges each node's partial update into the state and follows the        *)
(* conditional edge.  An exception raised by a method leaves the script    *)
(* (neither script has a handler around kickoff() or invoke()).            *)
(***************************************************************************)
EXTENDS Integers, Sequences, FiniteSets, TLC

----------------------------------------------------------------------------
(* Bounds *)

\* number of console lines entered in one session
MaxTurns == 2

----------------------------------------------------------------------------
(* Text *)

EXIT_TEXT == <<"e", "x", "i", "t">>
GOODBYE_TEXT == <<"g", "o", "o", "d", "b", "y", "e">>
BYE_TEXT == <<"B", "y", "e">>
EMPTY_TEXT == <<>>

\* str.lower() on one character
LowerChar(c) ==
    CASE c = "E" -> "e"
      [] c = "X" -> "x"
      [] c = "I" -> "i"
      [] c = "T" -> "t"
      [] c = "H" -> "h"
      [] OTHER -> c

\* str.lower()
Lower(s) == [i \in 1..Len(s) |-> LowerChar(s[i])]

IsSpace(c) == c = " "

RECURSIVE LStrip(_)
LStrip(s) == IF s # <<>> /\ IsSpace(Head(s)) THEN LStrip(Tail(s)) ELSE s

RECURSIVE RStrip(_)
RStrip(s) ==
    IF s # <<>> /\ IsSpace(s[Len(s)]) THEN RStrip(SubSeq(s, 1, Len(s) - 1)) ELSE s

\* str.strip()
Strip(s) == RStrip(LStrip(s))

\* the console lines a user may type
ConsoleLines ==
    { EMPTY_TEXT,
      EXIT_TEXT,
      <<" ", "E", "x", "I", "T", " ">>,
      <<"e", "x", "i", "t", "s">>,
      <<" ">>,
      <<"h", "i">> }

\* the reply texts the completion endpoint may return
ReplyTexts == { <<"o", "k">>, GOODBYE_TEXT }

\* what the classifier's completion call may produce: a payload that validates
\* against MessageClassifier, a payload that does not, or an exception
ClassifierOutcomes == {"emotional", "logical", "invalid", "raise"}

\* what a responder's completion call may produce: a reply text or an exception
ResponderOutcomes ==
    { [ok |-> TRUE, text |-> t] : t \in ReplyTexts } \cup { [ok |-> FALSE, text |-> EMPTY_TEXT] }

Labels == {"emotional", "logical"}

----------------------------------------------------------------------------
(* State *)

VARIABLES
    console,    \* the console lines entered so far, each with the model's outcomes for it
    fresh,      \* the scripts that have not yet read the current line
    c_pc,       \* CrewAI script: position of run_chatbot / the flow
    c_line,     \* CrewAI script: number of the console line read last
    c_state,    \* CrewAI script: flow.state (MessageState)
    c_ret,      \* CrewAI script: return value of classify_message
    c_branch,   \* CrewAI script: return value of route_message
    c_result,   \* CrewAI script: result of flow.kickoff()
    c_req,      \* CrewAI script: completion requests issued since the last line was read
    c_out,      \* CrewAI script: lines printed
    c_done,     \* CrewAI script: numbers of the lines whose turn completed
    g_pc,       \* LangGraph script: position of run_chatbot / the graph
    g_line,     \* LangGraph script: number of the console line read last
    g_state,    \* LangGraph script: state dict
    g_req,      \* LangGraph script: completion requests issued since the last line was read
    g_out,      \* LangGraph script: lines printed
    g_done      \* LangGraph script: numbers of the lines whose turn completed

envVars == <<console, fresh>>
crewVars == <<c_pc, c_line, c_state, c_ret, c_branch, c_result, c_req, c_out, c_done>>
graphVars == <<g_pc, g_line, g_state, g_req, g_out, g_done>>
vars == <<console, fresh, c_pc, c_line, c_state, c_ret, c_branch, c_result, c_req,
          c_out, c_done, g_pc, g_line, g_state, g_req, g_out, g_done>>

\* number of console lines entered so far
lines == Len(console)

\* the current console line and the model's outcomes for it
turn == console[Len(console)]

NONE == "None"

Msg(role, content) == [role |-> role, content |-> content]

\* MessageState()
MessageState ==
    [user_message |-> EMPTY_TEXT, message_type |-> "", response |-> EMPTY_TEXT,
     conversation_history |-> <<>>]

\* state = {"messages": [], "message_type": None}; the key "next" is absent
GraphState == [messages |-> <<>>, message_type |-> NONE, next |-> NONE]

Request(kind, messages) == [kind |-> kind, messages |-> messages]

PrintAssistant(text) == [tag |-> "Assistant", text |-> text]
PrintBye == [tag |-> "Bye", text |-> BYE_TEXT]

Init ==
    /\ console = <<>>
    /\ fresh = {}
    /\ c_pc = "awaiting_input"
    /\ c_line = 0
    /\ c_state = MessageState
    /\ c_ret = NONE
    /\ c_branch = NONE
    /\ c_result = EMPTY_TEXT
    /\ c_req = <<>>
    /\ c_out = <<>>
    /\ c_done = <<>>
    /\ g_pc = "awaiting_input"
    /\ g_line = 0
    /\ g_state = GraphState
    /\ g_req = <<>>
    /\ g_out = <<>>
    /\ g_done = <<>>

Resting == {"awaiting_input", "exit", "crashed"}

\* the user types a line; the model's outcomes for the turn are fixed with it
\* (temperature = 0: both scripts get the same answers to the same requests)
Console ==
    /\ lines < MaxTurns
    /\ fresh = {}
    /\ c_pc \in Resting /\ g_pc \in Resting
    /\ c_pc = "awaiting_input" \/ g_pc = "awaiting_input"
    /\ \E ln \in ConsoleLines, cls \in ClassifierOutcomes, rep \in ResponderOutcomes :
          console' = Append(console, [input |-> ln, cls |-> cls, reply |-> rep])
    /\ fresh' = {s \in {"crew", "graph"} :
                    \/ s = "crew" /\ c_pc = "awaiting_input"
                    \/ s = "graph" /\ g_pc = "awaiting_input"}
    /\ UNCHANGED <<crewVars, graphVars>>

----------------------------------------------------------------------------
(* crewai_flow_chatbot_direct_call.py *)

CLASSIFIER_PROMPT == Msg("system", <<"c", "l", "a", "s", "s", "i", "f", "y">>)
THERAPIST_PROMPT == Msg("system", <<"t", "h", "e", "r", "a", "p", "i", "s", "t">>)
LOGICAL_PROMPT == Msg("system", <<"l", "o", "g", "i", "c", "a", "l">>)

\* CrewIsExit with a fault: the line is not lowered before the comparison
CrewIsExit_NoLower(user_input) == Strip(user_input) = EXIT_TEXT

\* user_input.lower().strip() == "exit"
CrewIsExit(user_input) == Strip(Lower(user_input)) = EXIT_TEXT

\* run_chatbot: input(), the sentinel test, flow.state.user_message = user_input
CrewReadInput ==
    /\ c_pc = "awaiting_input"
    /\ "crew" \in fresh
    /\ fresh' = fresh \ {"crew"}
    /\ c_line' = lines
    /\ c_req' = <<>>
    /\ IF CrewIsExit(turn.input)
       THEN /\ c_pc' = "exit"
            /\ UNCHANGED c_state
       ELSE /\ c_pc' = "classifying"
            /\ c_state' = [c_state EXCEPT !.user_message = turn.input]
    /\ UNCHANGED <<console, c_ret, c_branch, c_result, c_out, c_done, graphVars>>

\* CrewParse with a fault: the except branch stores the other label
CrewParse_WrongDefault(payload) == IF payload \in Labels THEN payload ELSE "emotional"

\* the try/except of classify_message: the label a returned payload parses to
CrewParse(payload) == IF payload \in Labels THEN payload ELSE "logical"

\* CrewClassify with a fault: the except branch keeps the label of the
\* earlier turn
CrewClassify_KeepsLabel ==
    /\ c_pc = "classifying"
    /\ IF c_state.user_message = EMPTY_TEXT
       THEN /\ c_ret' = "exit"
            /\ c_pc' = "routing"
            /\ UNCHANGED <<c_state, c_req>>
       ELSE /\ c_req' = Append(c_req,
                   Request("classifier",
                           <<CLASSIFIER_PROMPT, Msg("user", c_state.user_message)>>))
            /\ IF turn.cls = "raise"
               THEN /\ c_pc' = "crashed"
                    /\ UNCHANGED <<c_state, c_ret>>
               ELSE /\ c_state' = [c_state EXCEPT
                          !.message_type = IF turn.cls \in Labels THEN turn.cls
                                           ELSE c_state.message_type]
                    /\ c_ret' = IF turn.cls \in Labels THEN turn.cls
                                ELSE c_state.message_type
                    /\ c_pc' = "routing"
    /\ UNCHANGED <<envVars, c_line, c_branch, c_result, c_out, c_done, graphVars>>

\* CrewClassify with a fault: the user message is stored in the history
\* before the message is classified
CrewClassify_StoresUser ==
    /\ c_pc = "classifying"
    /\ IF c_state.user_message = EMPTY_TEXT
       THEN /\ c_ret' = "exit"
            /\ c_pc' = "routing"
            /\ UNCHANGED <<c_state, c_req>>
       ELSE /\ c_req' = Append(c_req,
                   Request("classifier",
                           <<CLASSIFIER_PROMPT, Msg("user", c_state.user_message)>>))
            /\ IF turn.cls = "raise"
               THEN /\ c_pc' = "crashed"
                    /\ UNCHANGED <<c_state, c_ret>>
               ELSE /\ c_state' = [c_state EXCEPT
                          !.message_type = IF turn.cls \in Labels THEN turn.cls
                                           ELSE "logical",
                          !.conversation_history =
                              Append(c_state.conversation_history,
                                     Msg("user", c_state.user_message))]
                    /\ c_ret' = IF turn.cls \in Labels THEN turn.cls ELSE "logical"
                    /\ c_pc' = "routing"
    /\ UNCHANGED <<envVars, c_line, c_branch, c_result, c_out, c_done, graphVars>>

\* ChatbotFlow.classify_message
CrewClassify ==
    /\ c_pc = "classifying"
    /\ IF c_state.user_message = EMPTY_TEXT
       THEN /\ c_ret' = "exit"
            /\ c_pc' = "routing"
            /\ UNCHANGED <<c_state, c_req>>
       ELSE /\ c_req' = Append(c_req,
                   Request("classifier",
                           <<CLASSIFIER_PROMPT, Msg("user", c_state.user_message)>>))
            /\ IF turn.cls = "raise"
               THEN /\ c_pc' = "crashed"
                    /\ UNCHANGED <<c_state, c_ret>>
               ELSE /\ c_state' = [c_state EXCEPT !.message_type = CrewParse(turn.cls)]
                    /\ c_ret' = CrewParse(turn.cls)
                    /\ c_pc' = "routing"
    /\ UNCHANGED <<envVars, c_line, c_branch, c_result, c_out, c_done, graphVars>>

\* route_message with a fault: the two responders are swapped
route_message_Swapped(message_type) ==
    IF message_type = "exit" THEN "exit"
    ELSE IF message_type = "emotional" THEN "logical"
    ELSE "therapist"

\* route_message with a fault: the else branch returns "exit"
route_message_ExitByDefault(message_type) ==
    IF message_type = "emotional" THEN "therapist" ELSE "exit"

\* ChatbotFlow.route_message
route_message(message_type) ==
    IF message_type = "exit" THEN "exit"
    ELSE IF message_type = "emotional" THEN "therapist"
    ELSE "logical"

\* @router(classify_message)
CrewRoute ==
    /\ c_pc = "routing"
    /\ c_branch' = route_message(c_ret)
    /\ c_pc' = IF route_message(c_ret) = "exit" THEN "exiting" ELSE "responding"
    /\ UNCHANGED <<envVars, c_line, c_state, c_ret, c_result, c_req, c_out, c_done,
                   graphVars>>

\* CrewMessages with a fault: the history is not put into the list
CrewMessages_NoHistory(prompt, st) == <<prompt, Msg("user", st.user_message)>>

\* the message list of therapist_response / logical_response
CrewMessages(prompt, st) ==
    <<prompt>> \o st.conversation_history \o <<Msg("user", st.user_message)>>

\* CrewExtend with a fault: the reply is stored before the user message
CrewExtend_ReplyFirst(history, user_message, reply) ==
    history \o <<Msg("assistant", reply), Msg("user", user_message)>>

\* conversation_history.extend([user, assistant])
CrewExtend(history, user_message, reply) ==
    history \o <<Msg("user", user_message), Msg("assistant", reply)>>

\* CrewRespond with a fault: a failed completion call is caught and the method
\* returns an empty reply
CrewRespond_Swallow(kind, prompt) ==
    /\ c_pc = "responding"
    /\ c_branch = kind
    /\ c_req' = Append(c_req, Request(kind, <<prompt>> \o c_state.conversation_history
                                              \o <<Msg("user", c_state.user_message)>>))
    /\ IF turn.reply.ok
       THEN /\ c_state' = [c_state EXCEPT
                  !.conversation_history =
                      c_state.conversation_history
                      \o <<Msg("user", c_state.user_message),
                           Msg("assistant", turn.reply.text)>>,
                  !.response = turn.reply.text]
            /\ c_out' = Append(c_out, PrintAssistant(turn.reply.text))
            /\ c_result' = turn.reply.text
            /\ c_done' = Append(c_done, c_line)
       ELSE /\ c_result' = EMPTY_TEXT
            /\ UNCHANGED <<c_state, c_out, c_done>>
    /\ c_pc' = "returned"
    /\ UNCHANGED <<envVars, c_line, c_ret, c_branch, graphVars>>

\* CrewRespond with a fault: the user entry is stored in the history before
\* the completion call
CrewRespond_UserFirst(kind, prompt) ==
    /\ c_pc = "responding"
    /\ c_branch = kind
    /\ c_req' = Append(c_req, Request(kind, <<prompt>> \o c_state.conversation_history
                                              \o <<Msg("user", c_state.user_message)>>))
    /\ IF turn.reply.ok
       THEN /\ c_state' = [c_state EXCEPT
                  !.conversation_history =
                      c_state.conversation_history
                      \o <<Msg("user", c_state.user_message),
                           Msg("assistant", turn.reply.text)>>,
                  !.response = turn.reply.text]
            /\ c_out' = Append(c_out, PrintAssistant(turn.reply.text))
            /\ c_result' = turn.reply.text
            /\ c_done' = Append(c_done, c_line)
            /\ c_pc' = "returned"
       ELSE /\ c_state' = [c_state EXCEPT
                  !.conversation_history =
                      Append(c_state.conversation_history,
                             Msg("user", c_state.user_message))]
            /\ c_pc' = "crashed"
            /\ UNCHANGED <<c_out, c_result, c_done>>
    /\ UNCHANGED <<envVars, c_line, c_ret, c_branch, graphVars>>

\* body shared by therapist_response and logical_response
CrewRespond(kind, prompt) ==
    /\ c_pc = "responding"
    /\ c_branch = kind
    /\ c_req' = Append(c_req, Request(kind, CrewMessages(prompt, c_state)))
    /\ IF turn.reply.ok
       THEN /\ c_state' = [c_state EXCEPT
                  !.conversation_history =
                      CrewExtend(c_state.conversation_history, c_state.user_message,
                                 turn.reply.text),
                  !.response = turn.reply.text]
            /\ c_out' = Append(c_out, PrintAssistant(turn.reply.text))
            /\ c_result' = turn.reply.text
            /\ c_done' = Append(c_done, c_line)
            /\ c_pc' = "returned"
       ELSE /\ c_pc' = "crashed"
            /\ UNCHANGED <<c_state, c_out, c_result, c_done>>
    /\ UNCHANGED <<envVars, c_line, c_ret, c_branch, graphVars>>

\* ChatbotFlow.therapist_response
CrewTherapist == CrewRespond("therapist", THERAPIST_PROMPT)

\* ChatbotFlow.logical_response
CrewLogical == CrewRespond("logical", LOGICAL_PROMPT)

\* ChatbotFlow.handle_exit
CrewHandleExit ==
    /\ c_pc = "exiting"
    /\ c_out' = Append(c_out, PrintBye)
    /\ c_result' = GOODBYE_TEXT
    /\ c_pc' = "returned"
    /\ UNCHANGED <<envVars, c_line, c_state, c_ret, c_branch, c_req, c_done, graphVars>>

\* run_chatbot: the test after flow.kickoff()
CrewAfterKickoff ==
    /\ c_pc = "returned"
    /\ c_pc' = IF c_state.message_type = "exit" \/ c_result = GOODBYE_TEXT
               THEN "exit" ELSE "awaiting_input"
    /\ UNCHANGED <<envVars, c_line, c_state, c_ret, c_branch, c_result, c_req, c_out,
                   c_done, graphVars>>

CrewNext ==
    \/ CrewReadInput
    \/ CrewClassify
    \/ CrewRoute
    \/ CrewTherapist
    \/ CrewLogical
    \/ CrewHandleExit
    \/ CrewAfterKickoff

----------------------------------------------------------------------------
(* langgraph_chatbot.py *)

Last(s) == s[Len(s)]

\* add_message with a fault: the update replaces the list
add_message_Overwrite(left, right) == right

\* the add_message reducer of State.messages: the update is appended
add_message(left, right) == left \o right

\* user_input.strip().lower() == "exit"
GraphIsExit(user_input) == Lower(Strip(user_input)) = EXIT_TEXT

\* run_chatbot: input(), the sentinel test, the append of the user message
GraphReadInput ==
    /\ g_pc = "awaiting_input"
    /\ "graph" \in fresh
    /\ fresh' = fresh \ {"graph"}
    /\ g_line' = lines
    /\ IF GraphIsExit(turn.input)
       THEN /\ g_out' = Append(g_out, PrintBye)
            /\ g_pc' = "exit"
            /\ UNCHANGED g_state
       ELSE /\ g_state' = [g_state EXCEPT
                  !.messages = g_state.messages \o <<Msg("user", turn.input)>>]
            /\ g_pc' = "classifying"
            /\ UNCHANGED g_out
    /\ g_req' = <<>>
    /\ UNCHANGED <<console, g_done, crewVars>>

\* llm.with_structured_output(MessageClassifier).invoke(...).message_type:
\* the label of a payload that validates; there is no handler for one that
\* does not, nor for a call that raises
GraphParse(payload) == IF payload \in Labels THEN payload ELSE "error"

\* classify_message
GraphClassify ==
    /\ g_pc = "classifying"
    /\ g_req' = Append(g_req,
           Request("classifier",
                   <<CLASSIFIER_PROMPT, Msg("user", Last(g_state.messages))>>))
    /\ IF GraphParse(turn.cls) = "error"
       THEN /\ g_pc' = "crashed"
            /\ UNCHANGED g_state
       ELSE /\ g_state' = [g_state EXCEPT !.message_type = GraphParse(turn.cls)]
            /\ g_pc' = "routing"
    /\ UNCHANGED <<envVars, g_line, g_out, g_done, crewVars>>

\* router: the value of "next" it returns
router(state) ==
    IF state.message_type = "emotional" THEN "therapist" ELSE "logical"

\* the "router" node
GraphRouter ==
    /\ g_pc = "routing"
    /\ g_state' = [g_state EXCEPT !.next = router(g_state)]
    /\ g_pc' = "responding"
    /\ UNCHANGED <<envVars, g_line, g_req, g_out, g_done, crewVars>>

\* add_conditional_edges("router", lambda state: state.get("next"), {...})
ConditionalEdge(state) == state.next

\* the message list of therapist_agent / logical_agent
GraphMessages(prompt, state) ==
    <<prompt, Msg("user", Last(state.messages).content)>>

\* body shared by therapist_agent and logical_agent
GraphRespond(kind, prompt) ==
    /\ g_pc = "responding"
    /\ ConditionalEdge(g_state) = kind
    /\ g_req' = Append(g_req, Request(kind, GraphMessages(prompt, g_state)))
    /\ IF turn.reply.ok
       THEN /\ g_state' = [g_state EXCEPT
                  !.messages = add_message(g_state.messages,
                                           <<Msg("assistant", turn.reply.text)>>)]
            /\ g_done' = Append(g_done, g_line)
            /\ g_pc' = "printing"
       ELSE /\ g_pc' = "crashed"
            /\ UNCHANGED <<g_state, g_done>>
    /\ UNCHANGED <<envVars, g_line, g_out, crewVars>>

\* therapist_agent
GraphTherapist == GraphRespond("therapist", THERAPIST_PROMPT)

\* logical_agent
GraphLogical == GraphRespond("logical", LOGICAL_PROMPT)

\* run_chatbot: the print after graph.invoke(state)
GraphPrint ==
    /\ g_pc = "printing"
    /\ IF Len(g_state.messages) > 0
       THEN g_out' = Append(g_out, PrintAssistant(Last(g_state.messages).content))
       ELSE UNCHANGED g_out
    /\ g_pc' = "awaiting_input"
    /\ UNCHANGED <<envVars, g_line, g_state, g_req, g_done, crewVars>>

GraphNext ==
    \/ GraphReadInput
    \/ GraphClassify
    \/ GraphRouter
    \/ GraphTherapist
    \/ GraphLogical
    \/ GraphPrint

Next == Console \/ CrewNext \/ GraphNext

Spec == Init /\ [][Next]_vars

----------------------------------------------------------------------------
(* Vocabulary of the properties *)

Responders == {"therapist", "logical"}

\* the responder that answers a label
PersonaOf(label) == IF label = "emotional" THEN "therapist" ELSE "logical"

PromptOf(kind) == IF kind = "therapist" THEN THERAPIST_PROMPT ELSE LOGICAL_PROMPT

\* the script is in, or has just finished, the turn of the latest console line
CrewCurrent == lines > 0 /\ c_line = lines
GraphCurrent == lines > 0 /\ g_line = lines

\* a completion request of that kind was issued in the script's turn
CrewRan(kind) == \E i \in DOMAIN c_req : c_req[i].kind = kind
GraphRan(kind) == \E i \in DOMAIN g_req : g_req[i].kind = kind

\* the script was ended by an exception of the classifier step
CrewClassifierError == c_pc = "crashed" /\ \A k \in Responders : ~CrewRan(k)
GraphClassifierError == g_pc = "crashed" /\ \A k \in Responders : ~GraphRan(k)

\* the script has chosen a responder in its turn
CrewSelected ==
    c_pc \in {"responding", "returned"} \/ (c_pc = "crashed" /\ ~CrewClassifierError)
GraphSelected ==
    g_pc \in {"responding", "printing"} \/ (g_pc = "crashed" /\ ~GraphClassifierError)

\* the history that completed turns build: user line, reply, user line, reply, ...
RECURSIVE Transcript(_)
Transcript(done) ==
    IF done = <<>> THEN <<>>
    ELSE Transcript(SubSeq(done, 1, Len(done) - 1))
         \o <<Msg("user", console[done[Len(done)]].input),
              Msg("assistant", console[done[Len(done)]].reply.text)>>

\* the line is the word "exit" in any letter case between runs of blanks
IsSentinel(s) ==
    \E i \in 1..Len(s) :
        /\ i + 3 <= Len(s)
        /\ \A k \in 1..(i - 1) : s[k] = " "
        /\ \A k \in (i + 4)..Len(s) : s[k] = " "
        /\ s[i] \in {"e", "E"} /\ s[i + 1] \in {"x", "X"}
        /\ s[i + 2] \in {"i", "I"} /\ s[i + 3] \in {"t", "T"}

Count(out, tag) == Cardinality({i \in DOMAIN out : out[i].tag = tag})

----------------------------------------------------------------------------
(* Properties *)

\* C1: when the classifier's payload validates as emotional or logical, the
\* router of either script selects the responder of that name, and the other
\* responder issues no request in that turn.
C1_RouterSelectsMatchingBranch ==
    /\ (CrewCurrent /\ CrewRan("classifier") /\ turn.cls \in Labels) =>
          /\ CrewSelected => c_branch = PersonaOf(turn.cls)
          /\ \A k \in Responders : CrewRan(k) => k = PersonaOf(turn.cls)
    /\ (GraphCurrent /\ GraphRan("classifier") /\ turn.cls \in Labels) =>
          /\ GraphSelected => ConditionalEdge(g_state) = PersonaOf(turn.cls)
          /\ \A k \in Responders : GraphRan(k) => k = PersonaOf(turn.cls)

\* both scripts have answered an emotional message with the therapist
C1_Witness ==
    /\ CrewCurrent /\ GraphCurrent
    /\ turn.cls = "emotional"
    /\ c_pc = "returned" /\ CrewRan("therapist") /\ c_branch = "therapist"
    /\ g_pc = "printing" /\ GraphRan("therapist")

\* C2: when the classifier's payload fails schema validation, the label of
\* classify_message is "logical" and no error leaves the classifier, in both
\* scripts.
C2_InvalidPayloadFallsBackToLogical ==
    /\ (CrewCurrent /\ CrewRan("classifier") /\ turn.cls = "invalid") =>
          c_state.message_type = "logical" /\ ~CrewClassifierError
    /\ (GraphCurrent /\ GraphRan("classifier") /\ turn.cls = "invalid"
          /\ turn.input # EMPTY_TEXT) =>
          g_state.message_type = "logical" /\ ~GraphClassifierError

C4_EmptyMessageExits ==
    /\ (CrewCurrent /\ turn.input = EMPTY_TEXT) =>
          /\ c_req = <<>>
          /\ c_pc \in {"classifying", "routing", "exiting", "returned", "exit"}
          /\ c_pc \in {"exiting", "returned"} => c_branch = "exit"
    /\ (GraphCurrent /\ turn.input = EMPTY_TEXT) =>
          /\ g_req = <<>>
          /\ g_pc \in {"classifying", "exit"}

\* C5: a console line that is the exit sentinel ends the session loop in the
\* iteration that reads it: that step issues no completion request and leaves
\* the state, with the conversation history, as it was, and nothing runs after.
C5_SentinelEndsLoop ==
    [][ /\ ("crew" \in fresh /\ "crew" \notin fresh' /\ IsSentinel(turn.input)) =>
             c_pc' = "exit" /\ c_req' = <<>> /\ c_state' = c_state
        /\ ("graph" \in fresh /\ "graph" \notin fresh' /\ IsSentinel(turn.input)) =>
             g_pc' = "exit" /\ g_req' = <<>> /\ g_state' = g_state
        /\ c_pc = "exit" => (c_pc' = "exit" /\ c_req' = c_req /\ c_state' = c_state)
        /\ g_pc = "exit" => (g_pc' = "exit" /\ g_req' = g_req /\ g_state' = g_state)
      ]_vars

\* both scripts have left on " ExIT " after a turn that was answered
C5_Witness ==
    /\ CrewCurrent /\ GraphCurrent
    /\ lines >= 2
    /\ turn.input = <<" ", "E", "x", "I", "T", " ">>
    /\ c_pc = "exit" /\ g_pc = "exit"
    /\ Len(c_state.conversation_history) = 2 /\ Len(g_state.messages) = 2

\* C6: the conversation history is the transcript of the completed turns:
\* after N of them it has 2N entries, the k-th user line at 2k-1 and the reply
\* to it at 2k; while a script awaits input its history has even length.
C6_HistoryIsTranscript ==
    /\ c_state.conversation_history = Transcript(c_done)
    /\ Len(c_state.conversation_history) = 2 * Len(c_done)
    /\ g_pc \in {"awaiting_input", "printing", "exit"} =>
          /\ g_state.messages = Transcript(g_done)
          /\ Len(g_state.messages) = 2 * Len(g_done)
    /\ \A k \in 1..Len(g_done) :
          /\ g_state.messages[2 * k - 1] = Msg("user", console[g_done[k]].input)
          /\ g_state.messages[2 * k] = Msg("assistant", console[g_done[k]].reply.text)

\* both scripts await the next line after two completed turns
C6_Witness ==
    /\ c_pc = "awaiting_input" /\ g_pc = "awaiting_input"
    /\ Len(c_done) = 2 /\ Len(g_done) = 2
    /\ Len(c_state.conversation_history) = 4 /\ Len(g_state.messages) = 4
    /\ console[1].input # console[2].input

\* the turns the script completed before the one it is in
CrewPrior == SelectSeq(c_done, LAMBDA n : n < c_line)
GraphPrior == SelectSeq(g_done, LAMBDA n : n < g_line)

\* no empty line was entered: both scripts took every turn of the session
NoEmptyLine == \A n \in 1..lines : console[n].input # EMPTY_TEXT

\* C7 as stated: in both scripts a responder sends the persona instruction,
\* then the whole prior history in order, then the new user message (stated
\* on the sessions without an empty line, in which both scripts answer).
C7_RequestCarriesHistory ==
    NoEmptyLine =>
    /\ CrewCurrent =>
          \A i \in DOMAIN c_req : c_req[i].kind \in Responders =>
              c_req[i].messages = <<PromptOf(c_req[i].kind)>> \o Transcript(CrewPrior)
                                     \o <<Msg("user", turn.input)>>
    /\ GraphCurrent =>
          \A i \in DOMAIN g_req : g_req[i].kind \in Responders =>
              g_req[i].messages = <<PromptOf(g_req[i].kind)>> \o Transcript(GraphPrior)
                                     \o <<Msg("user", turn.input)>>

\* C7 amended: in the CrewAI flow a responder sends the persona instruction,
\* the whole prior history in order and the new user message, 1 + 2(k-1) + 1
\* messages in turn k; in the LangGraph graph a responder sends the persona
\* instruction and the latest user message only, 2 messages in every turn.
C7_CrewCarriesHistoryGraphLastMessage ==
    /\ CrewCurrent =>
          \A i \in DOMAIN c_req : c_req[i].kind \in Responders =>
              /\ c_req[i].messages = <<PromptOf(c_req[i].kind)>> \o Transcript(CrewPrior)
                                        \o <<Msg("user", turn.input)>>
              /\ Len(c_req[i].messages) = 1 + 2 * (c_line - 1) + 1
    /\ GraphCurrent =>
          \A i \in DOMAIN g_req : g_req[i].kind \in Responders =>
              g_req[i].messages = <<PromptOf(g_req[i].kind), Msg("user", turn.input)>>

\* in their second turn the CrewAI flow has sent four messages to a responder
\* and the LangGraph graph two
C7_Witness ==
    /\ CrewCurrent /\ GraphCurrent /\ lines = 2
    /\ \E i \in DOMAIN c_req :
          c_req[i].kind \in Responders /\ Len(c_req[i].messages) = 4
    /\ \E i \in DOMAIN g_req :
          g_req[i].kind \in Responders /\ Len(g_req[i].messages) = 2
    /\ Len(g_state.messages) >= 3

\* C8: a script that has reached the terminal exit state has printed the
\* farewell exactly once.
C8_FarewellOnEveryExit ==
    /\ c_pc = "exit" => Count(c_out, "Bye") = 1
    /\ g_pc = "exit" => Count(g_out, "Bye") = 1

\* a completion call failed in the script's turn
CrewCallFailed ==
    \/ CrewRan("classifier") /\ turn.cls = "raise"
    \/ (\E k \in Responders : CrewRan(k)) /\ ~turn.reply.ok
GraphCallFailed ==
    \/ GraphRan("classifier") /\ turn.cls = "raise"
    \/ (\E k \in Responders : GraphRan(k)) /\ ~turn.reply.ok

\* C9: a completion call that fails in a turn ends the script with the error:
\* the script does not return to awaiting input, the turn is not counted as
\* completed and no assistant entry is recorded for it; nothing runs after the
\* error.  (A payload that only fails validation is the case of C2.)
C9_FailureIsNotDropped ==
    /\ [](/\ (CrewCurrent /\ CrewCallFailed) =>
                /\ c_pc = "crashed"
                /\ c_line \notin {c_done[k] : k \in DOMAIN c_done}
                /\ Len(c_state.conversation_history) = 2 * Len(CrewPrior)
          /\ (GraphCurrent /\ GraphCallFailed) =>
                /\ g_pc = "crashed"
                /\ g_line \notin {g_done[k] : k \in DOMAIN g_done}
                /\ Last(g_state.messages).role = "user"
                /\ Len(g_state.messages) = 2 * Len(GraphPrior) + 1)
    /\ [][ /\ c_pc = "crashed" => crewVars' = crewVars
           /\ g_pc = "crashed" => graphVars' = graphVars ]_vars

\* both scripts were ended by a responder call that failed in their second turn
C9_Witness ==
    /\ CrewCurrent /\ GraphCurrent /\ lines = 2
    /\ ~turn.reply.ok
    /\ c_pc = "crashed" /\ (\E k \in Responders : CrewRan(k))
    /\ g_pc = "crashed" /\ (\E k \in Responders : GraphRan(k))

\* C10: on the same non-empty, non-sentinel line and the same classifier
\* outcome (a valid label or a payload that does not validate), the LangGraph
\* graph selects the branch the CrewAI flow selects.
C10_SameBranchInBothScripts ==
    (/\ CrewCurrent /\ GraphCurrent
     /\ turn.input # EMPTY_TEXT /\ ~IsSentinel(turn.input)
     /\ turn.cls \in {"emotional", "logical", "invalid"}
     /\ CrewSelected
     /\ GraphRan("classifier") /\ g_pc # "routing")
    => (GraphSelected /\ ConditionalEdge(g_state) = c_branch)

\* the line is neither empty nor the exit sentinel
NormalLine(s) == s # EMPTY_TEXT /\ ~IsSentinel(s)

\* the kinds of the requests, in the order of their issue
Kinds(req) == [i \in DOMAIN req |-> req[i].kind]

\* the steps of a turn on a normal line, in the CrewAI script
CrewTurnEdges ==
    { <<"awaiting_input", "classifying">>, <<"classifying", "routing">>,
      <<"routing", "responding">>, <<"responding", "returned">>,
      <<"returned", "awaiting_input">>,
      <<"classifying", "crashed">>, <<"responding", "crashed">>,
      <<"returned", "exit">> }

\* the steps of a turn on a normal line, in the LangGraph script
GraphTurnEdges ==
    { <<"awaiting_input", "classifying">>, <<"classifying", "routing">>,
      <<"routing", "responding">>, <<"responding", "printing">>,
      <<"printing", "awaiting_input">>,
      <<"classifying", "crashed">>, <<"responding", "crashed">> }

\* C11 as stated, for a line that is neither empty nor the sentinel (and a
\* classifier payload that is not one that fails validation, the case of C2):
\* when the turn is over the script awaits input again, and it has issued
\* exactly one classifier request followed by exactly one responder request.
C11_TurnRunsClassifierThenOneResponder ==
    /\ (CrewCurrent /\ NormalLine(turn.input) /\ turn.cls # "invalid" /\ c_pc \in Resting
          /\ "crew" \notin fresh) =>
          /\ c_pc = "awaiting_input"
          /\ \E k \in Responders : Kinds(c_req) = <<"classifier", k>>
    /\ (GraphCurrent /\ NormalLine(turn.input) /\ turn.cls # "invalid" /\ g_pc \in Resting
          /\ "graph" \notin fresh) =>
          /\ g_pc = "awaiting_input"
          /\ \E k \in Responders : Kinds(g_req) = <<"classifier", k>>

\* C11 amended: in a turn on a line that is neither empty nor the sentinel the
\* steps are taken in the order awaiting_input, classifying, routing,
\* responding, awaiting_input and none is entered twice; the classifier issues
\* one request, then at most one responder issues at most one request, and a
\* turn that completes has issued exactly one of each.  A turn stops before
\* its end when a completion call raises (or, in the LangGraph graph, when the
\* payload does not validate), and the CrewAI loop ends instead of awaiting
\* input when the reply is the text "goodbye".
C11_TurnStepsInOrder ==
    /\ [](/\ (CrewCurrent /\ NormalLine(turn.input) /\ "crew" \notin fresh) =>
                /\ \/ Kinds(c_req) = <<>> /\ c_pc = "classifying"
                   \/ Kinds(c_req) = <<"classifier">>
                         /\ c_pc \in {"routing", "responding", "crashed"}
                   \/ \E k \in Responders :
                         /\ Kinds(c_req) = <<"classifier", k>>
                         /\ c_pc \in {"returned", "awaiting_input", "exit", "crashed"}
                /\ c_pc = "crashed" => CrewCallFailed
                /\ c_pc = "exit" => c_result = GOODBYE_TEXT
                /\ c_pc \in {"returned", "awaiting_input", "exit"} <=>
                      c_line \in {c_done[k] : k \in DOMAIN c_done}
          /\ (GraphCurrent /\ NormalLine(turn.input) /\ "graph" \notin fresh) =>
                /\ \/ Kinds(g_req) = <<>> /\ g_pc = "classifying"
                   \/ Kinds(g_req) = <<"classifier">>
                         /\ g_pc \in {"routing", "responding", "crashed"}
                   \/ \E k \in Responders :
                         /\ Kinds(g_req) = <<"classifier", k>>
                         /\ g_pc \in {"printing", "awaiting_input", "crashed"}
                /\ g_pc = "crashed" => (GraphCallFailed \/ turn.cls = "invalid")
                /\ g_pc \in {"printing", "awaiting_input"} <=>
                      g_line \in {g_done[k] : k \in DOMAIN g_done})
    /\ [][ /\ (c_pc' # c_pc /\ NormalLine(turn'.input)) => <<c_pc, c_pc'>> \in CrewTurnEdges
           /\ (g_pc' # g_pc /\ NormalLine(turn'.input)) => <<g_pc, g_pc'>> \in GraphTurnEdges
         ]_vars

\* both scripts await the next line after a turn of one classifier request
\* and one request of the logical responder
C11_Witness ==
    /\ CrewCurrent /\ GraphCurrent
    /\ NormalLine(turn.input)
    /\ c_pc = "awaiting_input" /\ g_pc = "awaiting_input"
    /\ "crew" \notin fresh /\ "graph" \notin fresh
    /\ Kinds(c_req) = <<"classifier", "logical">>
    /\ Kinds(g_req) = <<"classifier", "logical">>

\* C12 as stated, on a line that is not empty: while a script is classifying,
\* routing or responding, its history is the history at the start of the turn.
C12_HistoryUntouchedBeforeReply ==
    /\ (CrewCurrent /\ turn.input # EMPTY_TEXT
          /\ c_pc \in {"classifying", "routing", "responding"}) =>
          c_state.conversation_history = Transcript(CrewPrior)
    /\ (GraphCurrent /\ turn.input # EMPTY_TEXT
          /\ g_pc \in {"classifying", "routing", "responding"}) =>
          g_state.messages = Transcript(GraphPrior)

\* C12 amended: in the CrewAI flow the user entry and the assistant entry of
\* a turn are appended together, by the responder, after its completion call
\* has returned, and until then the history is the one at the start of the
\* turn; in the LangGraph script the session loop appends the user entry when
\* it reads the line, before the graph runs, and only the assistant entry is
\* appended after the responder's completion call has returned.
C12_CrewAppendsPairGraphAppendsUserFirst ==
    /\ [](/\ (CrewCurrent /\ c_pc \in {"classifying", "routing", "responding", "exiting"}) =>
                c_state.conversation_history = Transcript(CrewPrior)
          /\ (GraphCurrent /\ g_pc \in {"classifying", "routing", "responding"}) =>
                g_state.messages = Transcript(GraphPrior) \o <<Msg("user", turn.input)>>)
    /\ [][ /\ c_state'.conversation_history # c_state.conversation_history =>
                /\ c_pc = "responding" /\ c_pc' = "returned"
                /\ turn.reply.ok
                /\ \E k \in Responders : Kinds(c_req') = <<"classifier", k>>
                /\ c_state'.conversation_history =
                      c_state.conversation_history
                      \o <<Msg("user", turn.input), Msg("assistant", turn.reply.text)>>
           /\ g_state'.messages # g_state.messages =>
                \/ /\ g_pc = "awaiting_input" /\ g_pc' = "classifying"
                   /\ g_state'.messages = g_state.messages \o <<Msg("user", turn.input)>>
                \/ /\ g_pc = "responding" /\ g_pc' = "printing"
                   /\ turn.reply.ok
                   /\ \E k \in Responders : Kinds(g_req') = <<"classifier", k>>
                   /\ g_state'.messages =
                         g_state.messages \o <<Msg("assistant", turn.reply.text)>>
         ]_vars

\* in their second turn both scripts are about to call a responder: the
\* CrewAI history still has the two entries of the first turn, the LangGraph
\* history has the new user entry as well
C12_Witness ==
    /\ CrewCurrent /\ GraphCurrent /\ lines = 2
    /\ c_pc = "responding" /\ g_pc = "responding"
    /\ Len(c_state.conversation_history) = 2
    /\ Len(g_state.messages) = 3

IsPrefix(s, t) == Len(s) <= Len(t) /\ SubSeq(t, 1, Len(s)) = s

\* C13: the conversation history is append-only: in every step of either
\* script the history before the step is a prefix of the history after it.
C13_HistoryAppendOnly ==
    [][ /\ IsPrefix(c_state.conversation_history, c_state'.conversation_history)
        /\ IsPrefix(g_state.messages, g_state'.messages) ]_vars

\* both scripts have just recorded the reply of their second turn
C13_Witness ==
    /\ CrewCurrent /\ GraphCurrent /\ lines = 2
    /\ c_pc = "returned" /\ g_pc = "printing"
    /\ Len(c_state.conversation_history) = 4
    /\ Len(g_state.messages) = 4

\* every completion call of the turn returns a result the script can use
CallsReturn == turn.cls \in Labels /\ turn.reply.ok

\* C14, as the results its eventualities lead to: when every completion call
\* returns, a script that has finished the turn of a line awaits input again
\* or is in the terminal exit state; after the sentinel or an empty line it is
\* in the terminal exit state; and no line is read after such a line.
C14_TurnEndsAndExitIsFinal ==
    /\ (CrewCurrent /\ CallsReturn /\ c_pc \in Resting /\ "crew" \notin fresh) =>
          /\ c_pc \in {"awaiting_input", "exit"}
          /\ (turn.input = EMPTY_TEXT \/ IsSentinel(turn.input)) => c_pc = "exit"
    /\ (GraphCurrent /\ CallsReturn /\ g_pc \in Resting /\ "graph" \notin fresh) =>
          /\ g_pc \in {"awaiting_input", "exit"}
          /\ (turn.input = EMPTY_TEXT \/ IsSentinel(turn.input)) => g_pc = "exit"
    /\ \A n \in 1..lines :
          (console[n].input = EMPTY_TEXT \/ IsSentinel(console[n].input)) =>
              /\ c_line >= n => c_line = n
              /\ g_line >= n => g_line = n

\* an earlier turn of the script was classified as emotional and answered
CrewHadEmotionalTurn ==
    \E k \in DOMAIN c_done : c_done[k] < c_line /\ console[c_done[k]].cls = "emotional"
GraphHadEmotionalTurn ==
    \E k \in DOMAIN g_done : g_done[k] < g_line /\ console[g_done[k]].cls = "emotional"

\* C15: the label an earlier turn left in the state does not decide a later
\* turn: after an emotional turn, a turn whose classifier outcome is not a
\* valid "emotional" is never routed to the therapist, and a turn whose
\* outcome is a valid "emotional" is never routed to the logical responder.
C15_StaleLabelNeverRoutes ==
    /\ (CrewCurrent /\ "crew" \notin fresh /\ CrewHadEmotionalTurn) =>
          /\ turn.cls # "emotional" =>
                /\ ~CrewRan("therapist")
                /\ c_pc \in {"responding", "exiting", "returned"} => c_branch # "therapist"
                /\ c_pc = "responding" => c_state.message_type = "logical"
          /\ turn.cls = "emotional" =>
                /\ ~CrewRan("logical")
                /\ c_pc \in {"responding", "returned"} /\ turn.input # EMPTY_TEXT =>
                      c_branch = "therapist"
    /\ (GraphCurrent /\ "graph" \notin fresh /\ GraphHadEmotionalTurn) =>
          /\ turn.cls # "emotional" =>
                /\ ~GraphRan("therapist")
                /\ g_pc \in {"responding", "printing"} =>
                      ConditionalEdge(g_state) = "logical"
          /\ turn.cls = "emotional" =>
                /\ ~GraphRan("logical")
                /\ g_pc \in {"responding", "printing"} =>
                      ConditionalEdge(g_state) = "therapist"

\* after an emotional turn, a payload that does not validate: the CrewAI
\* flow has answered as the logical assistant and the LangGraph graph has
\* stopped without a responder
C15_Witness ==
    /\ CrewCurrent /\ GraphCurrent /\ lines = 2
    /\ CrewHadEmotionalTurn /\ GraphHadEmotionalTurn
    /\ turn.cls = "invalid"
    /\ c_pc = "returned" /\ CrewRan("logical") /\ c_state.message_type = "logical"
    /\ g_pc = "crashed" /\ g_state.message_type = "emotional"

\* the reply stored by the last turn the script completed before this one
CrewPriorResponse ==
    IF CrewPrior = <<>> THEN EMPTY_TEXT
    ELSE console[CrewPrior[Len(CrewPrior)]].reply.text

\* C16: in the CrewAI flow a responder whose completion call raises leaves
\* the conversation history and the stored response as they were before the
\* turn, the step of the failing call changing nothing of the flow's state;
\* the history is left with no user entry that lacks its assistant entry.
C16_FailedResponderLeavesState ==
    /\ [](CrewCurrent /\ (\E k \in Responders : CrewRan(k)) /\ ~turn.reply.ok =>
             /\ c_state.conversation_history = Transcript(CrewPrior)
             /\ c_state.response = CrewPriorResponse
             /\ Len(c_state.conversation_history) % 2 = 0
             /\ \A i \in DOMAIN c_state.conversation_history :
                   c_state.conversation_history[i].role =
                       IF i % 2 = 1 THEN "user" ELSE "assistant")
    /\ [][ (c_pc = "responding" /\ c_pc' # c_pc /\ ~turn.reply.ok) =>
               (c_pc' = "crashed" /\ c_state' = c_state) ]_vars

\* a responder of the CrewAI flow has failed in the second turn and the
\* history holds the two entries of the first turn
C16_Witness ==
    /\ CrewCurrent /\ lines = 2
    /\ ~turn.reply.ok
    /\ c_pc = "crashed" /\ (\E k \in Responders : CrewRan(k))
    /\ Len(c_state.conversation_history) = 2
    /\ c_state.response = console[1].reply.text
    /\ c_state.user_message = turn.input

\* handle_exit was the last method of the script's kickoff
CrewHandleExitRan ==
    /\ c_branch = "exit"
    /\ c_out # <<>> /\ Last(c_out) = PrintBye

\* C17: in the CrewAI flow message_type is "", "emotional" or "logical" and
\* never "exit"; the empty-message path leaves the history and the response
\* as they were; and the session loop leaves after a kickoff exactly when
\* handle_exit ran and the kickoff's result is "goodbye".
C17_LoopLeavesOnlyThroughHandleExit ==
    /\ c_state.message_type \in {"", "emotional", "logical"}
    /\ (CrewCurrent /\ "crew" \notin fresh /\ turn.input = EMPTY_TEXT) =>
          /\ c_state.conversation_history = Transcript(CrewPrior)
          /\ c_state.response = CrewPriorResponse
    /\ (c_pc = "exit" /\ c_line > 0 /\ ~IsSentinel(console[c_line].input)) =>
          CrewHandleExitRan /\ c_result = GOODBYE_TEXT
    /\ (c_pc = "awaiting_input" /\ c_line > 0) =>
          ~(c_branch = "exit" /\ c_result = GOODBYE_TEXT)

====
